---- MODULE Spec2Model ----
(***************************************************************************)
(* Model of src/launchpad-mini.js: the Launchpad driver's button table,    *)
(* the inbound MIDI decoder (_processMessage) and the outbound commands    *)
(* (col, multiplexing, reset), which all end in sendRaw.                   *)
(***************************************************************************)
EXTENDS Integers, Sequences, FiniteSets, TLC

(***************************************************************************)
(* JavaScript values that reach the driver as arguments.  A value is a     *)
(* number, undefined (an absent argument, or an array element past the     *)
(* end) or an array of numbers; all three are records of one shape.        *)
(***************************************************************************)
Num(n) == [isArray |-> FALSE, elems |-> <<n>>]

Undefined == [isArray |-> FALSE, elems |-> <<>>]

Arr(s) == [isArray |-> TRUE, elems |-> s]

IsNum(v) == ~v.isArray /\ Len(v.elems) = 1

NumVal(v) == v.elems[1]

\* buttons[i] of a JavaScript array (0-based): undefined past the end.
Elem(arr, i) == IF i < Len(arr) THEN arr[i + 1] ELSE Undefined

\* An [x,y] array seen as the argument `buttons` of col: its elements.
Items(v) == [i \in 1..Len(v.elems) |-> Num(v.elems[i])]

Max(a, b) == IF a >= b THEN a ELSE b

Min(a, b) == IF a <= b THEN a ELSE b

(***************************************************************************)
(* The button table built by the constructor.                              *)
(***************************************************************************)
\* NumButtons for the whole 9x9 square.
NumButtonsSquare == 9 * 9

NumButtons == 9 * 9 - 1

\* NewButton with the grid rows 8 keys apart instead of 0x10.
NewButtonStride8(ix) ==
    LET y == (ix - (ix % 9)) \div 9
        x == ix % 9
    IN  [ pressed |-> FALSE,
          x |-> x,
          y |-> y,
          cmd |-> IF y >= 8 THEN 176 ELSE 144,
          key |-> IF y >= 8 THEN 104 + x ELSE 8 * y + x ]

NewButton(ix) ==
    LET y == (ix - (ix % 9)) \div 9
        x == ix % 9
    IN  [ pressed |-> FALSE,
          x |-> x,
          y |-> y,
          cmd |-> IF y >= 8 THEN 176 ELSE 144,
          key |-> IF y >= 8 THEN 104 + x ELSE 16 * y + x ]

NewButtons == [ix \in 0..(NumButtons - 1) |-> NewButton(ix)]

VARIABLES
    _buttons,   \* this._buttons: index -> {pressed, x, y, cmd, key}
    received,   \* the inbound messages delivered by midiIn so far
    keyEvents,  \* the 'key' events emitted so far, in order
    sent,       \* the messages handed to midiOut.sendMessage so far
    call,       \* the operation that ran last
    args,       \* its arguments
    raised,     \* whether it ended by throwing a TypeError
    calls,      \* how many methods the application has called
    returned,   \* what the last call returned (<< >> when nothing)
    midi        \* midiIn and midiOut, the 'connect'/'disconnect' events
                \* emitted and how the last connect promise settled

vars == <<_buttons, received, keyEvents, sent, call, args, raised, calls,
          returned, midi>>

(***************************************************************************)
(* _button: the entry at 9*y+x, or undefined (the empty sequence here)     *)
(* when that index is not one of the array's, or is NaN.                   *)
(***************************************************************************)
\* ButtonIndex with the coordinates swapped.
ButtonIndexSwapped(x, y) == 9 * x + y

ButtonIndex(x, y) == 9 * y + x

HasIndex(btns, x, y) ==
    /\ IsNum(x)
    /\ IsNum(y)
    /\ ButtonIndex(NumVal(x), NumVal(y)) \in DOMAIN btns

_button(btns, x, y) ==
    IF HasIndex(btns, x, y)
    THEN << btns[ButtonIndex(NumVal(x), NumVal(y))] >>
    ELSE << >>

(***************************************************************************)
(* _processMessage: what one inbound message does to the table, the 'key'  *)
(* events it emits, and whether the assignment to .pressed threw because   *)
(* _button returned undefined (no event is emitted then).                  *)
(***************************************************************************)
GridX(data1) == data1 % 16

GridY(data1) == (data1 - GridX(data1)) \div 16

\* AutomapX with the row's base key off by one row of the grid.
AutomapXBase96(data1) == data1 - 96

AutomapX(data1) == data1 - 104

\* IsPressedValue taking velocity 0 as a press too.
IsPressedValueAny(data2) == data2 >= 0

IsPressedValue(data2) == data2 > 0

Press(btns, x, y, pressed) ==
    IF _button(btns, Num(x), Num(y)) # << >>
    THEN [ buttons |-> [btns EXCEPT ![ButtonIndex(x, y)].pressed = pressed],
           emitted |-> << [x |-> x, y |-> y, pressed |-> pressed] >>,
           raised |-> FALSE ]
    ELSE [ buttons |-> btns, emitted |-> << >>, raised |-> TRUE ]

\* _processMessage taking every status but 0xB0 for a grid key.
_processMessageElseGrid(btns, message) ==
    IF message[1] = 176
    THEN Press(btns, AutomapX(message[2]), 8, IsPressedValue(message[3]))
    ELSE Press(btns, GridX(message[2]), GridY(message[2]), IsPressedValue(message[3]))

_processMessage(btns, message) ==
    IF message[1] = 144
    THEN Press(btns, GridX(message[2]), GridY(message[2]), IsPressedValue(message[3]))
    ELSE IF message[1] = 176
    THEN Press(btns, AutomapX(message[2]), 8, IsPressedValue(message[3]))
    ELSE [ buttons |-> btns, emitted |-> << >>, raised |-> FALSE ]

(***************************************************************************)
(* pressedButtons and isPressed: the two read accessors.                   *)
(***************************************************************************)
RECURSIVE FilterPressed(_, _)
FilterPressed(btns, ix) ==
    IF ix \notin DOMAIN btns
    THEN << >>
    ELSE (IF btns[ix].pressed THEN << <<btns[ix].x, btns[ix].y>> >> ELSE << >>)
            \o FilterPressed(btns, ix + 1)

pressedButtons(btns) == FilterPressed(btns, 0)

isPressed(btns, x, y) ==
    \E ix \in DOMAIN btns :
        btns[ix].pressed /\ btns[ix].x = x /\ btns[ix].y = y

(***************************************************************************)
(* The outbound commands.  Each yields the messages it hands to sendRaw,   *)
(* in order, and whether it ended by throwing a TypeError (reading .cmd of *)
(* undefined); what was sent before the throw stays sent.                  *)
(***************************************************************************)
RECURSIVE col(_, _, _)
RECURSIVE ForEachCol(_, _, _, _)
ForEachCol(btns, color, buttons, i) ==
    IF i > Len(buttons)
    THEN [sent |-> << >>, raised |-> FALSE]
    ELSE LET one == col(btns, color, Items(buttons[i]))
         IN  IF one.raised
             THEN one
             ELSE LET others == ForEachCol(btns, color, buttons, i + 1)
                  IN  [sent |-> one.sent \o others.sent, raised |-> others.raised]

col(btns, color, buttons) ==
    IF Len(buttons) > 0 /\ buttons[1].isArray
    THEN ForEachCol(btns, color, buttons, 1)
    ELSE LET b == _button(btns, Elem(buttons, 0), Elem(buttons, 1))
         IN  IF b = << >>
             THEN [sent |-> << >>, raised |-> TRUE]
             ELSE [sent |-> << <<b[1].cmd, b[1].key, color>> >>, raised |-> FALSE]

\* v || dflt: the default replaces undefined and 0 alike.
OrDefault(v, dflt) == IF IsNum(v) /\ NumVal(v) # 0 THEN NumVal(v) ELSE dflt

MuxNum(num) == Max(1, Min(OrDefault(num, 1), 16))

MuxDen(den) == Max(3, Min(OrDefault(den, 5), 18))

\* multiplexing with the bank switching one numerator late (num <= 9).
multiplexingLateBank(num, den) ==
    LET n == MuxNum(num)
        d == MuxDen(den)
    IN  IF n <= 9
        THEN <<176, 30, 16 * (n - 1) + (d - 3)>>
        ELSE <<176, 31, 16 * (n - 9) + (d - 3)>>

multiplexing(num, den) ==
    LET n == MuxNum(num)
        d == MuxDen(den)
    IN  IF n < 9
        THEN <<176, 30, 16 * (n - 1) + (d - 3)>>
        ELSE <<176, 31, 16 * (n - 9) + (d - 3)>>

\* reset taking brightness 0 for a level too (brightness >= 0).
resetFromZero(brightness) ==
    LET b == IF IsNum(brightness) /\ NumVal(brightness) >= 0 /\ NumVal(brightness) <= 3
             THEN NumVal(brightness) + 124
             ELSE 0
    IN  <<176, 0, b>>

reset(brightness) ==
    LET b == IF IsNum(brightness) /\ NumVal(brightness) > 0 /\ NumVal(brightness) <= 3
             THEN NumVal(brightness) + 124
             ELSE 0
    IN  <<176, 0, b>>

(***************************************************************************)
(* Launchpad.color: mode is undefined ("undefined" here), 'flash' or       *)
(* 'double'; a boolean multiplies as 1 or 0.                               *)
(***************************************************************************)
BoolNum(b) == IF b THEN 1 ELSE 0

\* color with the flash offset taken for the default one.
Launchpad_colorFlash12(r, g, mode) ==
    16 * g + r + 12 * BoolNum(mode = "undefined") + 12 * BoolNum(mode = "flash")

Launchpad_color(r, g, mode) ==
    16 * g + r + 12 * BoolNum(mode = "undefined") + 8 * BoolNum(mode = "flash")

(***************************************************************************)
(* The MIDI ports.  A side (midiIn, midiOut) lists its ports, each known   *)
(* here by whether its name contains 'Launchpad', and holds the number of  *)
(* the port it has open, if any.  openPort throws on a number that is not  *)
(* one of the side's ports; on a side already open it changes nothing.     *)
(***************************************************************************)
NewPort(names) == [ports |-> names, open |-> << >>]

NewMidi(inNames, outNames) ==
    [ input |-> NewPort(inNames),
      output |-> NewPort(outNames),
      connectEvents |-> 0,
      disconnectEvents |-> 0,
      settled |-> "none" ]

findLaunchpadPorts(port) ==
    SelectSeq([i \in 1..Len(port.ports) |-> i - 1],
              LAMBDA portNumber : port.ports[portNumber + 1])

openPort(port, portNumber) ==
    IF portNumber \in 0..(Len(port.ports) - 1)
    THEN [ port |-> [port EXCEPT !.open = IF @ = << >> THEN <<portNumber>> ELSE @],
           threw |-> FALSE ]
    ELSE [ port |-> port, threw |-> TRUE ]

connectFirstPort(port) ==
    LET found == findLaunchpadPorts(port)
    IN  IF found = << >>
        THEN [port |-> port, ok |-> FALSE]
        ELSE [port |-> openPort(port, found[1]).port, ok |-> TRUE]

Connected(m, input, output) ==
    [m EXCEPT !.input = input, !.output = output,
              !.connectEvents = @ + 1, !.settled = "resolved"]

Rejected(m, input, output) ==
    [m EXCEPT !.input = input, !.output = output, !.settled = "rejected"]

\* connect content with a Launchpad port on either side (iOk || oOk).
connectEitherSide(m, port) ==
    IF port # Undefined
    THEN LET i == openPort(m.input, NumVal(port))
         IN  IF i.threw
             THEN Rejected(m, m.input, m.output)
             ELSE LET o == openPort(m.output, NumVal(port))
                  IN  IF o.threw
                      THEN Rejected(m, i.port, m.output)
                      ELSE Connected(m, i.port, o.port)
    ELSE LET iOk == connectFirstPort(m.input)
             oOk == connectFirstPort(m.output)
         IN  IF iOk.ok \/ oOk.ok
             THEN Connected(m, iOk.port, oOk.port)
             ELSE Rejected(m, iOk.port, oOk.port)

connect(m, port) ==
    IF port # Undefined
    THEN LET i == openPort(m.input, NumVal(port))
         IN  IF i.threw
             THEN Rejected(m, m.input, m.output)
             ELSE LET o == openPort(m.output, NumVal(port))
                  IN  IF o.threw
                      THEN Rejected(m, i.port, m.output)
                      ELSE Connected(m, i.port, o.port)
    ELSE LET iOk == connectFirstPort(m.input)
             oOk == connectFirstPort(m.output)
         IN  IF iOk.ok /\ oOk.ok
             THEN Connected(m, iOk.port, oOk.port)
             ELSE Rejected(m, iOk.port, oOk.port)

disconnect(m) ==
    [m EXCEPT !.input.open = << >>, !.output.open = << >>,
              !.disconnectEvents = @ + 1]

(***************************************************************************)
(* The operations as actions.                                              *)
(***************************************************************************)
InitDriver ==
    /\ _buttons = NewButtons
    /\ received = << >>
    /\ keyEvents = << >>
    /\ sent = << >>
    /\ call = "new"
    /\ args = << >>
    /\ raised = FALSE
    /\ calls = 0
    /\ returned = << >>

Init ==
    /\ InitDriver
    /\ midi = NewMidi(<<TRUE>>, <<TRUE>>)

\* midiIn delivers one message to the 'message' listener.
ProcessMessage(message) ==
    LET r == _processMessage(_buttons, message)
    IN  /\ _buttons' = r.buttons
        /\ received' = Append(received, message)
        /\ keyEvents' = keyEvents \o r.emitted
        /\ call' = "_processMessage"
        /\ args' = message
        /\ raised' = r.raised
        /\ returned' = << >>
        /\ UNCHANGED <<sent, calls, midi>>

\* sendRaw hands each message to midiOut.sendMessage.
Col(color, buttons) ==
    LET r == col(_buttons, color, buttons)
    IN  /\ sent' = sent \o r.sent
        /\ call' = "col"
        /\ args' = <<color, buttons>>
        /\ raised' = r.raised
        /\ calls' = calls + 1
        /\ returned' = << >>
        /\ UNCHANGED <<_buttons, received, keyEvents, midi>>

Multiplexing(num, den) ==
    /\ sent' = Append(sent, multiplexing(num, den))
    /\ call' = "multiplexing"
    /\ args' = <<num, den>>
    /\ raised' = FALSE
    /\ calls' = calls + 1
    /\ returned' = << >>
    /\ UNCHANGED <<_buttons, received, keyEvents, midi>>

\* Reset that also marks every button released.
ResetReleasing(brightness) ==
    /\ sent' = Append(sent, reset(brightness))
    /\ call' = "reset"
    /\ args' = <<brightness>>
    /\ raised' = FALSE
    /\ calls' = calls + 1
    /\ returned' = << >>
    /\ _buttons' = [ix \in DOMAIN _buttons |-> [_buttons[ix] EXCEPT !.pressed = FALSE]]
    /\ UNCHANGED <<received, keyEvents, midi>>

Reset(brightness) ==
    /\ sent' = Append(sent, reset(brightness))
    /\ call' = "reset"
    /\ args' = <<brightness>>
    /\ raised' = FALSE
    /\ calls' = calls + 1
    /\ returned' = << >>
    /\ UNCHANGED <<_buttons, received, keyEvents, midi>>

SendRaw(data) ==
    /\ sent' = Append(sent, data)
    /\ call' = "sendRaw"
    /\ args' = <<data>>
    /\ raised' = FALSE
    /\ calls' = calls + 1
    /\ returned' = << >>
    /\ UNCHANGED <<_buttons, received, keyEvents, midi>>

\* A read accessor or Launchpad.color: it returns a value and changes nothing.
Return(name, arguments, value) ==
    /\ call' = name
    /\ args' = arguments
    /\ raised' = FALSE
    /\ calls' = calls + 1
    /\ returned' = value
    /\ UNCHANGED <<_buttons, received, keyEvents, sent, midi>>

PressedButtons == Return("pressedButtons", << >>, pressedButtons(_buttons))

IsPressed(x, y) == Return("isPressed", <<x, y>>, isPressed(_buttons, x, y))

Color(r, g, mode) == Return("color", <<r, g, mode>>, Launchpad_color(r, g, mode))

\* The promise executor runs inside the call; the promise is settled when
\* connect returns.
Connect(port) ==
    /\ midi' = connect(midi, port)
    /\ call' = "connect"
    /\ args' = <<port>>
    /\ raised' = FALSE
    /\ calls' = calls + 1
    /\ returned' = << >>
    /\ UNCHANGED <<_buttons, received, keyEvents, sent>>

Disconnect ==
    /\ midi' = disconnect(midi)
    /\ call' = "disconnect"
    /\ args' = << >>
    /\ raised' = FALSE
    /\ calls' = calls + 1
    /\ returned' = << >>
    /\ UNCHANGED <<_buttons, received, keyEvents, sent>>

(***************************************************************************)
(* Bounds and input sets.                                                  *)
(***************************************************************************)
MaxOps == 2

MaxKeys == 1

MaxCols == 1

MaxList == 2

MaxMux == 1

MaxResets == 3

MaxColorCalls == 1

MaxConnects == 1

MaxPorts == 2

Statuses == {128, 144, 160, 176}

\* Under 0x90: 0, 16, 32, 112 are grid keys, 104 is the key of (8,6), 9 and
\* 111 have x > 8.  Under 0xB0: 104 and 111 are automap keys, 32 is below
\* the row, 0, 9 and 16 give a negative index and 112 gives index 80.
Data1Vals == {0, 9, 16, 32, 104, 111, 112}

Data2Vals == {0, 127}

Messages == {<<s, d1, d2>> : s \in Statuses, d1 \in Data1Vals, d2 \in Data2Vals}

Velocities == {0, 1, 127}

Colors == {12, 15, 60}

\* An [x,y] pair as col takes it, and a list of pairs.
PairArg(x, y) == <<Num(x), Num(y)>>

ListArg(ps) == [i \in 1..Len(ps) |-> Arr(ps[i])]

Positions == {<<x, y>> : x \in 0..8, y \in 0..8}

ListPositions == {<<0, 0>>, <<8, 7>>, <<7, 8>>, <<8, 8>>}

Lists(n) == UNION {[1..k -> ListPositions] : k \in 0..n}

NumArgs(lo, hi) == {Undefined} \cup {Num(n) : n \in lo..hi}

(***************************************************************************)
(* Spec: the driver under inbound messages and outbound commands mixed.    *)
(***************************************************************************)
InboundNext == \E m \in Messages : ProcessMessage(m)

ColPairNext == \E p \in {<<0, 0>>, <<8, 8>>} : Col(15, PairArg(p[1], p[2]))

ColListNext == \E ps \in {<< >>, << <<0, 0>>, <<0, 8>> >>} : Col(60, ListArg(ps))

MultiplexingNext ==
    \E a \in {<<Undefined, Undefined>>, <<Num(9), Num(5)>>, <<Num(1), Num(0)>>} :
        Multiplexing(a[1], a[2])

ResetNext == \E b \in {Undefined, Num(3)} : Reset(b)

SendRawNext == SendRaw(<<144, 0, 15>>)

IsPressedNext == \E p \in {<<0, 0>>, <<0, 1>>} : IsPressed(p[1], p[2])

Next ==
    \/ Len(received) + calls < MaxOps /\ InboundNext
    \/ Len(received) + calls < MaxOps /\ ColPairNext
    \/ Len(received) + calls < MaxOps /\ ColListNext
    \/ Len(received) + calls < MaxOps /\ MultiplexingNext
    \/ Len(received) + calls < MaxOps /\ ResetNext
    \/ Len(received) + calls < MaxOps /\ SendRawNext
    \/ Len(received) + calls < MaxOps /\ IsPressedNext
    \/ Len(received) + calls < MaxOps /\ PressedButtons

Spec == Init /\ [][Next]_vars

(***************************************************************************)
(* SpecKeys: the device reports a key of the table; every entry of the     *)
(* table is tried.                                                         *)
(***************************************************************************)
NextKeys ==
    /\ Len(received) < MaxKeys
    /\ \E ix \in DOMAIN _buttons, d2 \in Velocities :
           ProcessMessage(<<_buttons[ix].cmd, _buttons[ix].key, d2>>)

SpecKeys == Init /\ [][NextKeys]_vars

(***************************************************************************)
(* SpecCol: col on every position of the 9x9 square, and on short lists.   *)
(***************************************************************************)
NextCol ==
    \/ calls < MaxCols /\ \E color \in Colors, p \in Positions :
                              Col(color, PairArg(p[1], p[2]))
    \/ calls < MaxCols /\ \E color \in Colors, ps \in Lists(MaxList) :
                              Col(color, ListArg(ps))

SpecCol == Init /\ [][NextCol]_vars

(***************************************************************************)
(* SpecMux: multiplexing on every pair of arguments around its ranges.     *)
(***************************************************************************)
NextMux ==
    /\ calls < MaxMux
    /\ \E num \in NumArgs(-2, 18), den \in NumArgs(-2, 21) : Multiplexing(num, den)

SpecMux == Init /\ [][NextMux]_vars

(***************************************************************************)
(* SpecReset: reset on every brightness around its range.                  *)
(***************************************************************************)
NextReset ==
    /\ calls < MaxResets
    /\ \E b \in NumArgs(-2, 6) : Reset(b)

SpecReset == Init /\ [][NextReset]_vars

(***************************************************************************)
(* SpecColor: Launchpad.color on every pair of levels, in and just past    *)
(* 0..3, in each mode.                                                     *)
(***************************************************************************)
Levels == 0..5

Modes == {"undefined", "flash", "double"}

NextColor ==
    /\ calls < MaxColorCalls
    /\ \E r \in Levels, g \in Levels, mode \in Modes : Color(r, g, mode)

SpecColor == Init /\ [][NextColor]_vars

(***************************************************************************)
(* SpecConnect: connect and disconnect, over every list of at most         *)
(* MaxPorts ports on each side.                                            *)
(***************************************************************************)
PortLists == UNION {[1..k -> BOOLEAN] : k \in 0..MaxPorts}

InitConnect ==
    /\ InitDriver
    /\ \E inNames \in PortLists, outNames \in PortLists :
           midi = NewMidi(inNames, outNames)

NextConnect ==
    \/ calls < MaxConnects /\ \E port \in NumArgs(0, MaxPorts) : Connect(port)
    \/ calls < MaxConnects /\ Disconnect

SpecConnect == InitConnect /\ [][NextConnect]_vars

(***************************************************************************)
(* Helpers of the properties.                                              *)
(***************************************************************************)
Last(s) == s[Len(s)]

\* The step appended message m to the inbound log.
Delivered(m) == received' = Append(received, m)

\* Message m carries the (command, key) of table entry b.
Addresses(m, b) == m[1] = b.cmd /\ m[2] = b.key

AddressesPosition(m, x, y) ==
    \E ix \in DOMAIN _buttons :
        _buttons[ix].x = x /\ _buttons[ix].y = y /\ Addresses(m, _buttons[ix])

AddressesTable(m) == \E ix \in DOMAIN _buttons : Addresses(m, _buttons[ix])

\* The most recent message addressing (x,y) exists and had data2 > 0.
LastMarkedPressed(x, y) ==
    \E i \in 1..Len(received) :
        /\ AddressesPosition(received[i], x, y)
        /\ received[i][3] > 0
        /\ \A j \in (i + 1)..Len(received) : ~AddressesPosition(received[j], x, y)

\* The positions the round trip is stated for: the 8x8 grid and the eight
\* automap buttons.
RoundTripEntries ==
    {ix \in DOMAIN _buttons : _buttons[ix].x \in 0..7 /\ _buttons[ix].y \in 0..8}

(***************************************************************************)
(* C1: round trip.  For every entry with x in 0..7 (grid rows, status      *)
(* 0x90, and the automap row, status 0xB0), processing the message         *)
(* [cmd, key, v] built from the entry emits one key event carrying the     *)
(* entry's own (x,y) and writes the pressed field of that entry and of no  *)
(* other.                                                                  *)
(***************************************************************************)
C1_RoundTrip ==
    [][\A ix \in RoundTripEntries, v \in Velocities :
          Delivered(<<_buttons[ix].cmd, _buttons[ix].key, v>>) =>
              /\ keyEvents' = Append(keyEvents,
                     [x |-> _buttons[ix].x, y |-> _buttons[ix].y, pressed |-> v > 0])
              /\ _buttons' = [_buttons EXCEPT ![ix].pressed = v > 0]
              /\ ~raised']_vars

C1_Witness ==
    /\ received = << <<176, 111, 127>> >>
    /\ keyEvents = << [x |-> 7, y |-> 8, pressed |-> TRUE] >>
    /\ _buttons[79].pressed

(***************************************************************************)
(* C2: isPressed is false everywhere before any inbound message; as long   *)
(* as every inbound message so far addresses a position of the table,      *)
(* isPressed(x,y) is true exactly when the most recent message addressing  *)
(* (x,y) had data2 > 0, so messages addressing other positions leave it.   *)
(***************************************************************************)
C2_IsPressed ==
    (\A i \in 1..Len(received) : AddressesTable(received[i])) =>
        \A x \in 0..8, y \in 0..8 :
            isPressed(_buttons, x, y) <=> LastMarkedPressed(x, y)

C2_Witness ==
    /\ received = << <<144, 16, 127>>, <<144, 16, 0>> >>
    /\ ~isPressed(_buttons, 0, 1)
    /\ keyEvents[1].pressed

(***************************************************************************)
(* C3: after any sequence of inbound messages pressedButtons is the list,  *)
(* in row-major order (y ascending, then x), each once, of the positions   *)
(* whose most recent addressing message had data2 > 0, and (x,y) is in it  *)
(* exactly when isPressed(x,y).                                            *)
(***************************************************************************)
RECURSIVE MarkedPressedFrom(_)
MarkedPressedFrom(p) ==
    IF p > 80
    THEN << >>
    ELSE (IF LastMarkedPressed(p % 9, p \div 9) THEN << <<p % 9, p \div 9>> >> ELSE << >>)
            \o MarkedPressedFrom(p + 1)

C3_PressedButtons ==
    /\ pressedButtons(_buttons) = MarkedPressedFrom(0)
    /\ \A x \in 0..8, y \in 0..8 :
           isPressed(_buttons, x, y) <=>
               \E i \in 1..Len(pressedButtons(_buttons)) :
                   pressedButtons(_buttons)[i] = <<x, y>>

(***************************************************************************)
(* C4: an inbound message whose status is neither 0x90 nor 0xB0 emits no   *)
(* key event and leaves every button's pressed field as it was, whatever   *)
(* its data bytes and whatever the table holds.                            *)
(***************************************************************************)
C4_UnknownStatus ==
    [][\A m \in Messages :
          (Delivered(m) /\ m[1] \notin {144, 176}) =>
              /\ keyEvents' = keyEvents
              /\ \A ix \in DOMAIN _buttons :
                     _buttons'[ix].pressed = _buttons[ix].pressed
              /\ DOMAIN _buttons' = DOMAIN _buttons]_vars

C4_Witness ==
    /\ received = << <<144, 0, 127>>, <<160, 0, 127>> >>
    /\ isPressed(_buttons, 0, 0)
    /\ Len(keyEvents) = 1

(***************************************************************************)
(* C5: every inbound message with status 0x90 or 0xB0 emits exactly one    *)
(* key event, with pressed = (data2 > 0), also when the button already had *)
(* that value: the events are as many as the recognized messages and come  *)
(* in their order.                                                         *)
(***************************************************************************)
Recognized(m) == m[1] \in {144, 176}

C5_OneEventPerMessage ==
    LET rec == SelectSeq(received, Recognized)
    IN  /\ Len(keyEvents) = Len(rec)
        /\ \A i \in 1..Len(rec) : keyEvents[i].pressed = (rec[i][3] > 0)

(***************************************************************************)
(* What the table is said to hold for a position, and the message col is   *)
(* said to send for it.                                                    *)
(***************************************************************************)
CommandOf(x, y) == IF y = 8 THEN 176 ELSE 144

KeyOf(x, y) == IF y = 8 THEN 104 + x ELSE 16 * y + x

ColorMessage(x, y, color) == <<CommandOf(x, y), KeyOf(x, y), color>>

\* The step is a call of the named command.
Called(name) == calls' = calls + 1 /\ call' = name

IsPair(buttons) == Len(buttons) = 2 /\ IsNum(buttons[1]) /\ IsNum(buttons[2])

\* buttons is an array of [x,y] pairs, possibly empty.
IsList(buttons) == \A i \in 1..Len(buttons) : buttons[i].isArray

InTable(x, y) == \E ix \in DOMAIN _buttons : _buttons[ix].x = x /\ _buttons[ix].y = y

(***************************************************************************)
(* C6: col given a list of n >= 0 positions sends exactly n messages, the  *)
(* i-th being [command, key, color] of the i-th position, and completes    *)
(* normally; an empty list sends nothing.  Stated for lists of positions   *)
(* that have a table entry.                                                *)
(***************************************************************************)
C6_ColList ==
    [][(/\ Called("col")
        /\ IsList(args'[2])
        /\ \A i \in 1..Len(args'[2]) :
               InTable(args'[2][i].elems[1], args'[2][i].elems[2])) =>
          /\ ~raised'
          /\ sent' = sent \o [i \in 1..Len(args'[2]) |->
                 ColorMessage(args'[2][i].elems[1], args'[2][i].elems[2], args'[1])]]_vars

(***************************************************************************)
(* C7 as stated: col given one position (x,y), x and y in 0..8, sends      *)
(* exactly one message, [0x90, 0x10*y + x, color] for y in 0..7 and        *)
(* [0xB0, 0x68 + x, color] for y = 8.                                      *)
(***************************************************************************)
C7_ColEveryPosition ==
    [][(Called("col") /\ IsPair(args'[2])) =>
          /\ ~raised'
          /\ sent' = Append(sent,
                 ColorMessage(NumVal(args'[2][1]), NumVal(args'[2][2]), args'[1]))]_vars

(***************************************************************************)
(* C7 amended: the same for every position but (8,8); the table has no     *)
(* entry for (8,8), and col on it sends nothing and throws a TypeError.    *)
(***************************************************************************)
C7_ColPosition ==
    [][(Called("col") /\ IsPair(args'[2])) =>
          LET x == NumVal(args'[2][1])
              y == NumVal(args'[2][2])
          IN  IF x = 8 /\ y = 8
              THEN raised' /\ sent' = sent
              ELSE /\ ~raised'
                   /\ sent' = Append(sent, ColorMessage(x, y, args'[1]))]_vars

C7_Witness ==
    /\ call = "col"
    /\ args = <<15, PairArg(7, 8)>>
    /\ sent = << <<176, 111, 15>> >>
    /\ ~raised

(***************************************************************************)
(* The encoding of a numerator in 1..16 and a denominator in 3..18.        *)
(***************************************************************************)
Clamp(v, lo, hi) == IF v < lo THEN lo ELSE IF v > hi THEN hi ELSE v

MuxMessage(n, d) ==
    IF n <= 8
    THEN <<176, 30, 16 * (n - 1) + (d - 3)>>
    ELSE <<176, 31, 16 * (n - 9) + (d - 3)>>

(***************************************************************************)
(* C8: multiplexing clamps every supplied numerator to [1,16] and every    *)
(* supplied denominator to [3,18] before encoding, for all integers,       *)
(* 0 and negative values included.                                         *)
(***************************************************************************)
C8_Clamp ==
    (call = "multiplexing" /\ IsNum(args[1]) /\ IsNum(args[2])) =>
        Last(sent) = MuxMessage(Clamp(NumVal(args[1]), 1, 16),
                                Clamp(NumVal(args[2]), 3, 18))

(***************************************************************************)
(* C9: multiplexing sends exactly one message [0xB0, controller, data]:    *)
(* controller 0x1E and data 0x10*(n-1) + (d-3) for n in 1..8, controller   *)
(* 0x1F and data 0x10*(n-9) + (d-3) for n in 9..16, d in 3..18; an absent  *)
(* numerator is 1 and an absent denominator is 5.                          *)
(***************************************************************************)
InRangeOrAbsent(v, lo, hi) == v = Undefined \/ (IsNum(v) /\ NumVal(v) \in lo..hi)

ValueOr(v, dflt) == IF v = Undefined THEN dflt ELSE NumVal(v)

C9_Encoding ==
    [][(/\ Called("multiplexing")
        /\ InRangeOrAbsent(args'[1], 1, 16)
        /\ InRangeOrAbsent(args'[2], 3, 18)) =>
          LET n == ValueOr(args'[1], 1)
              d == ValueOr(args'[2], 5)
          IN  /\ sent' = Append(sent, <<176,
                                        IF n \in 1..8 THEN 30 ELSE 31,
                                        IF n \in 1..8 THEN 16 * (n - 1) + (d - 3)
                                                      ELSE 16 * (n - 9) + (d - 3)>>)
              /\ (n = 1 /\ d = 5) => Last(sent') = <<176, 30, 2>>
              /\ (n = 9 /\ d = 5) => Last(sent') = <<176, 31, 2>>]_vars

C9_Witness ==
    /\ call = "multiplexing"
    /\ args = <<Num(9), Undefined>>
    /\ sent = << <<176, 31, 2>> >>

(***************************************************************************)
(* C10: reset sends exactly one message, [0xB0, 0x00, brightness + 0x7C]   *)
(* when brightness is 1, 2 or 3 and [0xB0, 0x00, 0x00] when it is absent   *)
(* or any other integer.                                                   *)
(***************************************************************************)
C10_Reset ==
    [][Called("reset") =>
          LET b == args'[1]
          IN  IF IsNum(b) /\ NumVal(b) \in {1, 2, 3}
              THEN sent' = Append(sent, <<176, 0, NumVal(b) + 124>>)
              ELSE sent' = Append(sent, <<176, 0, 0>>)]_vars

C10_Witness ==
    /\ call = "reset"
    /\ args = <<Num(3)>>
    /\ Len(sent) = 2
    /\ sent[1] = <<176, 0, 0>>
    /\ sent[2] = <<176, 0, 127>>

(***************************************************************************)
(* C11 as stated: the table holds one entry for each of the 81 linear      *)
(* indices 0..80, entry i with y = i div 9, x = i mod 9, command 0xB0 if   *)
(* y >= 8 else 0x90, key 0x68 + x if y >= 8 else 0x10*y + x, pressed false *)
(* at construction; so (8,8) has an entry too.                             *)
(***************************************************************************)
EntryAsStated(ix) ==
    /\ _buttons[ix].y = ix \div 9
    /\ _buttons[ix].x = ix % 9
    /\ _buttons[ix].cmd = (IF ix \div 9 >= 8 THEN 176 ELSE 144)
    /\ _buttons[ix].key = (IF ix \div 9 >= 8 THEN 104 + (ix % 9) ELSE 16 * (ix \div 9) + (ix % 9))
    /\ (call = "new" => ~_buttons[ix].pressed)

\* The positions that have an entry.
TablePositions == {<<_buttons[ix].x, _buttons[ix].y>> : ix \in DOMAIN _buttons}

C11_Table81 ==
    /\ DOMAIN _buttons = 0..80
    /\ \A ix \in DOMAIN _buttons : EntryAsStated(ix)
    /\ TablePositions = (0..8) \X (0..8)

(***************************************************************************)
(* C11 amended: the table holds one entry for each of the 80 indices       *)
(* 0..79, built as stated; every position of the 9x9 square has an entry   *)
(* except (8,8).                                                           *)
(***************************************************************************)
C11_Table80 ==
    /\ DOMAIN _buttons = 0..79
    /\ \A ix \in DOMAIN _buttons : EntryAsStated(ix)
    /\ TablePositions = ((0..8) \X (0..8)) \ {<<8, 8>>}

C11_Witness ==
    /\ call = "new"
    /\ _buttons[79] = [pressed |-> FALSE, x |-> 7, y |-> 8, cmd |-> 176, key |-> 111]
    /\ _buttons[71] = [pressed |-> FALSE, x |-> 8, y |-> 7, cmd |-> 144, key |-> 120]
    /\ 80 \notin DOMAIN _buttons

(***************************************************************************)
(* C12: no two distinct entries of the table have the same (command, key), *)
(* and within each command class the map from position to key is          *)
(* one-to-one.                                                             *)
(***************************************************************************)
\* The entries of one command class, and a map's being one-to-one on a set
\* of entries: it takes as many values as there are entries.
ClassEntries(cmd) == {ix \in DOMAIN _buttons : _buttons[ix].cmd = cmd}

OneToOne(entries, Value(_)) ==
    Cardinality({Value(ix) : ix \in entries}) = Cardinality(entries)

CommandKey(ix) == <<_buttons[ix].cmd, _buttons[ix].key>>

PositionOf(ix) == <<_buttons[ix].x, _buttons[ix].y>>

KeyOfEntry(ix) == _buttons[ix].key

C12_UniqueKeys ==
    /\ OneToOne(DOMAIN _buttons, CommandKey)
    /\ OneToOne(DOMAIN _buttons, PositionOf)
    /\ OneToOne(ClassEntries(144), KeyOfEntry)
    /\ OneToOne(ClassEntries(176), KeyOfEntry)
    /\ ClassEntries(144) \cup ClassEntries(176) = DOMAIN _buttons

\* (8,6) and (0,8) share the key 0x68 and differ in the command only.
C12_Witness ==
    /\ call = "_processMessage"
    /\ _buttons[62].key = _buttons[72].key
    /\ _buttons[62].cmd = 144
    /\ _buttons[72].cmd = 176

(***************************************************************************)
(* C13: only inbound-message processing writes a pressed field: a call of  *)
(* col, multiplexing, reset, sendRaw, isPressed or pressedButtons leaves   *)
(* every button's pressed value as it was; and across every operation,     *)
(* inbound messages included, each entry's x, y, command and key and the   *)
(* number of entries stay as constructed.                                  *)
(***************************************************************************)
C13_Frame ==
    [][/\ received' = received =>
              \A ix \in DOMAIN _buttons : _buttons'[ix].pressed = _buttons[ix].pressed
       /\ DOMAIN _buttons' = DOMAIN NewButtons
       /\ \A ix \in DOMAIN NewButtons :
              /\ _buttons'[ix].x = NewButtons[ix].x
              /\ _buttons'[ix].y = NewButtons[ix].y
              /\ _buttons'[ix].cmd = NewButtons[ix].cmd
              /\ _buttons'[ix].key = NewButtons[ix].key]_vars

C13_Witness ==
    /\ received = << <<144, 0, 127>> >>
    /\ call = "reset"
    /\ isPressed(_buttons, 0, 0)
    /\ sent = << <<176, 0, 0>> >>

(***************************************************************************)
(* C14: Launchpad.color returns 16*g + r + 12 when no mode is given,       *)
(* 16*g + r + 8 for 'flash' and 16*g + r for 'double'; so color(0,0) = 12, *)
(* color(3,0) = 15, color(0,3) = 60, color(1,3) = 61, and for r and g in   *)
(* 0..3 every result lies in 0..63.                                        *)
(***************************************************************************)
C14_Color ==
    call = "color" =>
        LET r == args[1]
            g == args[2]
            mode == args[3]
        IN  /\ mode = "undefined" => returned = 16 * g + r + 12
            /\ mode = "flash" => returned = 16 * g + r + 8
            /\ mode = "double" => returned = 16 * g + r
            /\ (r \in 0..3 /\ g \in 0..3) => returned \in 0..63
            /\ args = <<0, 0, "undefined">> => returned = 12
            /\ args = <<3, 0, "undefined">> => returned = 15
            /\ args = <<0, 3, "undefined">> => returned = 60
            /\ args = <<1, 3, "undefined">> => returned = 61

C14_Witness ==
    /\ call = "color"
    /\ args = <<3, 3, "flash">>
    /\ returned = 59

(***************************************************************************)
(* C15: connect() without a port resolves and emits 'connect' exactly once *)
(* when the input side and the output side each list a port whose name     *)
(* contains 'Launchpad'; when either side lists none it rejects and emits  *)
(* no 'connect'; and nothing retries it: no other step emits 'connect' or  *)
(* settles the promise anew.                                               *)
(***************************************************************************)
ListsLaunchpad(port) == \E n \in 1..Len(port.ports) : port.ports[n]

C15_Connect ==
    [][/\ (Called("connect") /\ args'[1] = Undefined) =>
              IF ListsLaunchpad(midi.input) /\ ListsLaunchpad(midi.output)
              THEN /\ midi'.settled = "resolved"
                   /\ midi'.connectEvents = midi.connectEvents + 1
              ELSE /\ midi'.settled = "rejected"
                   /\ midi'.connectEvents = midi.connectEvents
       /\ call' # "connect" =>
              /\ midi'.settled = midi.settled
              /\ midi'.connectEvents = midi.connectEvents]_vars

C15_Witness ==
    /\ call = "connect"
    /\ args = <<Undefined>>
    /\ midi.input = [ports |-> <<FALSE, TRUE>>, open |-> <<1>>]
    /\ midi.output = [ports |-> <<TRUE>>, open |-> <<0>>]
    /\ midi.settled = "resolved"
    /\ midi.connectEvents = 1

C15_WitnessRejected ==
    /\ call = "connect"
    /\ args = <<Undefined>>
    /\ midi.input.ports = <<TRUE>>
    /\ midi.output.ports = <<FALSE>>
    /\ midi.settled = "rejected"
    /\ midi.connectEvents = 0

(***************************************************************************)
(* C16: no aliasing on decode.  For an inbound message with status 0x90 or *)
(* 0xB0 the only entry whose pressed field can change is the one whose     *)
(* command is the status and whose key is data1; when there is no such     *)
(* entry no pressed field changes.                                         *)
(***************************************************************************)
C16_NoAliasing ==
    [][\A m \in Messages :
          (Delivered(m) /\ Recognized(m)) =>
              \A ix \in DOMAIN _buttons :
                  _buttons'[ix].pressed # _buttons[ix].pressed =>
                      Addresses(m, _buttons[ix])]_vars

(***************************************************************************)
(* C17: events agree with queries.  Right after an inbound message with    *)
(* status 0x90 or 0xB0 has emitted the key event {x, y, pressed},          *)
(* isPressed(x, y) is that pressed value and (x, y) is in pressedButtons   *)
(* exactly when pressed is true.                                           *)
(***************************************************************************)
Contains(s, e) == \E i \in 1..Len(s) : s[i] = e

C17_EventsAgree ==
    (call = "_processMessage" /\ Recognized(args) /\ ~raised) =>
        LET e == Last(keyEvents)
        IN  /\ isPressed(_buttons, e.x, e.y) = e.pressed
            /\ Contains(pressedButtons(_buttons), <<e.x, e.y>>) = e.pressed

(***************************************************************************)
(* C18: inbound processing never fails.  Every 3-byte inbound message, in  *)
(* any table state, is processed without an error being raised: it either  *)
(* updates one button and emits one event, or is discarded.                *)
(***************************************************************************)
C18_NeverFails ==
    [][\A m \in Messages :
          Delivered(m) =>
              /\ ~raised'
              /\ \/ Len(keyEvents') = Len(keyEvents) + 1
                 \/ (keyEvents' = keyEvents /\ _buttons' = _buttons)]_vars

(***************************************************************************)
(* C19: a failed connect leaves nothing open.  When connect rejects,       *)
(* neither the input nor the output port is open afterwards; after connect *)
(* has settled the two ports are both open or both closed.                 *)
(***************************************************************************)
IsOpen(port) == port.open # << >>

C19_NothingLeftOpen ==
    call = "connect" =>
        /\ midi.settled = "rejected" => (~IsOpen(midi.input) /\ ~IsOpen(midi.output))
        /\ IsOpen(midi.input) <=> IsOpen(midi.output)

====
